---- MODULE Spec2Model ----
(***************************************************************************)
(* chibi-manager (src/src/main.rs): overlay windows ("chibis") spawned    *)
(* from a manager window, dragged, parked off screen on hover, hidden all  *)
(* at once from a tray icon that lives on its own thread, and saved as     *)
(* presets.                                                                *)
(*                                                                         *)
(* The UI thread runs one GTK callback at a time; every callback is one    *)
(* action.  The 100 ms poll callback is split at each try_recv(), because  *)
(* the tray thread can send between two of them.  The tray thread's menu   *)
(* activations are actions of their own.                                   *)
(*                                                                         *)
(* Logical positions are f64 in the code and the window margin is i32.     *)
(* A position is modelled as an integer number of 1/Sub pixels, so that    *)
(* `as i32` (truncation toward zero) is a real conversion.                 *)
(***************************************************************************)
EXTENDS Integers, Sequences, FiniteSets, TLC

(* ------------------------------ bounds -------------------------------- *)
\* windows ever built by spawn_chibi_window
MaxWin == 2
\* messages in the channel
MaxQueue == 2
\* glib timeouts pending at once
MaxTimers == 2
\* presses of the pointer on an overlay
MaxGestures == 1
\* sub-pixel resolution of an f64 position
Sub == 2
\* what the user sets Spawn X and Spawn Y to before spawning from the form
SpinX == 150
SpinY == 50

(* ------------------------- program constants -------------------------- *)
HoverPark == 10000
GlobalPark == 20000
RecyclePark == 30000
ParkedThreshold == 9000
DefaultDelay == 3
FormSize == 200
FormX == 100
FormY == 100

\* GestureDrag offsets (offset_x, offset_y) in 1/Sub pixels
Offsets == { <<5, -3>>, <<-8, 2>> }
\* values of the per-row hide-delay SpinButton the user moves to
DelayValues == {1}
\* what the user types in the Save Preset dialog
EntryTexts == {"", "mine"}
\* files the FileDialog can return
Paths == {"a.png"}
NoPath == "none"

(* --------------------------- conversions ------------------------------ *)
\* `n as f64` for an i32 n
ToF64(n) == n * Sub

\* `v as i32` for an f64 v: truncation toward zero
AsI32(v) == IF v >= 0 THEN v \div Sub ELSE -((-v) \div Sub)

(* ------------------------------ state --------------------------------- *)
VARIABLES
  active_registry,   \* Vec<ActiveWindowRef>
  dead_pool,         \* Vec<gtk::Window>: surface ids
  global_hide_state, \* Cell<bool>
  presets,           \* Vec<ChibiPreset>
  file,              \* presets.json on disk
  selected_path,     \* Option<PathBuf>
  preset_rows,       \* the rows of preset_list: the preset each row captured
  manager_visible,   \* the manager ApplicationWindow is shown
  dialog,            \* the open "Save Preset" dialog, or NoDialog
  chibi,             \* per add_to_active_ui call: the cells its closures share
  surface,           \* per gtk::Window built: margin and child
  timeouts,          \* pending glib::timeout_add_seconds_local closures
  drag,              \* the GestureDrag in progress (one pointer)
  gestures,          \* presses so far
  channel,           \* mpsc channel AppMsg
  tray_is_hidden,    \* ChibiTray.is_hidden (tray thread)
  ui_pc,             \* "idle" or "poll" (inside the poll callback)
  running,           \* the application has not quit
  uuids,             \* Uuid::new_v4() calls so far
  watch              \* history: one hover-hide followed through a global hide

uiVars == <<active_registry, dead_pool, global_hide_state, presets, file, selected_path,
            preset_rows, manager_visible, dialog, chibi, surface, timeouts, watch>>
vars == <<active_registry, dead_pool, global_hide_state, presets, file, selected_path,
          preset_rows, manager_visible, dialog, chibi, surface, timeouts,
          drag, gestures, channel, tray_is_hidden, ui_pc, running, uuids, watch>>

NoDialog == [open |-> FALSE]
\* drag: active is the gesture's state and off the offset of its last update;
\* chibi, press_x, press_y and armed record, for the last gesture, the overlay
\* pressed, its logical position at the press and whether move-mode was on at
\* the press and has stayed on since (chibi = 0: no gesture yet); move_at_press
\* is move-mode as the press found it
NoDrag == [active |-> FALSE, chibi |-> 0, off |-> <<0, 0>>,
           press_x |-> 0, press_y |-> 0, armed |-> FALSE, move_at_press |-> FALSE]

\* watch follows one live instance from the hover that parks it (stage "parked", x0 its
\* logical x then) through ToggleHideAll to true while its timer is pending
\* ("hidden") and ToggleHideAll back to false ("shown"); fired: the timer has
\* fired since.  A drag, another hover or a close of the instance ends the watch.
NoWatch == [stage |-> "idle", chibi |-> 0, x0 |-> 0, fired |-> FALSE]

\* ids: a loaded preset has id 0, the k-th Uuid::new_v4() is k.  The loaded preset
\* is one saved from the form's defaults with Smart Hide checked.
LoadedPreset ==
  [id |-> 0, name |-> "loaded", path |-> "a.png", width |-> FormSize,
   x |-> FormX, y |-> FormY, smart_hide |-> TRUE, always_on_top |-> FALSE,
   hide_delay |-> DefaultDelay]

\* presets.json: state "missing" (path.exists() is false), "unreadable"
\* (read_to_string or from_str fails) or "json", with data the list it holds
ConfigFiles ==
  { [state |-> "missing", data |-> <<>>],
    [state |-> "unreadable", data |-> <<>>],
    [state |-> "json", data |-> <<LoadedPreset>>] }

\* load_presets(): the list in the file, Vec::new() unless it exists and parses
load_presets(f) == IF f.state = "json" THEN f.data ELSE <<>>

\* save_presets(vec): what presets.json can be afterwards; the result of
\* fs::write is dropped, so the file holds vec or is as it was
save_presets(vec) == { [state |-> "json", data |-> vec], file }

Init ==
  /\ active_registry = <<>>
  /\ dead_pool = <<>>
  /\ global_hide_state = FALSE
  /\ file \in ConfigFiles
  /\ presets = load_presets(file)
  /\ selected_path = NoPath
  /\ preset_rows = <<>>
  /\ manager_visible = TRUE
  /\ dialog = NoDialog
  /\ chibi = <<>>
  /\ surface = <<>>
  /\ timeouts = <<>>
  /\ drag = NoDrag
  /\ gestures = 0
  /\ channel = <<"RefreshPresets">>
  /\ tray_is_hidden = FALSE
  /\ ui_pc = "idle"
  /\ running = TRUE
  /\ uuids = 0
  /\ watch = NoWatch


(* ------------------------------ helpers ------------------------------- *)
Last(s) == s[Len(s)]
Front(s) == SubSeq(s, 1, Len(s) - 1)
RemoveAt(s, i) == SubSeq(s, 1, i - 1) \o SubSeq(s, i + 1, Len(s))

\* the callbacks of the UI thread run one at a time, while the application runs
UiIdle == running /\ ui_pc = "idle"
\* a click on a widget of the manager window: it is shown, and no modal dialog is open
ManagerClick == UiIdle /\ manager_visible /\ ~dialog.open
\* the process exists: the tray thread can still send
Alive == running \/ ui_pc = "poll"

\* iter().position(|x| x.preset_id == Some(pid)) on the registry: 0 for None
PositionByPreset(reg, pid) ==
  IF \E k \in 1..Len(reg) : reg[k].preset_id = pid
    THEN CHOOSE k \in 1..Len(reg) :
           /\ reg[k].preset_id = pid
           /\ \A j \in 1..(k - 1) : reg[j].preset_id # pid
    ELSE 0

\* the index of the first entry whose window is w: 0 for none
PositionByWindow(reg, w) ==
  IF \E k \in 1..Len(reg) : reg[k].window = w
    THEN CHOOSE k \in 1..Len(reg) :
           /\ reg[k].window = w
           /\ \A j \in 1..(k - 1) : reg[j].window # w
    ELSE 0

\* iter().position(|p| p.id == pid) on the preset list: 0 for None
PresetPosition(ps, pid) ==
  IF \E k \in 1..Len(ps) : ps[k].id = pid
    THEN CHOOSE k \in 1..Len(ps) :
           /\ ps[k].id = pid
           /\ \A j \in 1..(k - 1) : ps[j].id # pid
    ELSE 0

\* recycle_window(win) on the surfaces: the child is dropped, the margin is the sentinel
RetireSurface(sf, w) ==
  [sf EXCEPT ![w].child = NoPath, ![w].margin_left = RecyclePark]

(* -------------------------- history: watch ---------------------------- *)
\* hover_enter parked instance i
WatchAfterHover(i) ==
  IF watch.stage = "idle" /\ chibi[i].row
    THEN [stage |-> "parked", chibi |-> i, x0 |-> chibi[i].current_x, fired |-> FALSE]
  ELSE IF watch.chibi = i THEN NoWatch
  ELSE watch

\* a timer of instance i fired
WatchAfterTimer(i) ==
  IF watch.stage = "idle" \/ watch.chibi # i THEN watch
  ELSE IF watch.stage = "parked" THEN NoWatch
  ELSE [watch EXCEPT !.fired = TRUE]

\* ToggleHideAll set the flag to new_state
WatchAfterToggle(new_state) ==
  IF watch.stage = "parked" /\ new_state THEN [watch EXCEPT !.stage = "hidden"]
  ELSE IF watch.stage = "hidden" /\ ~new_state THEN [watch EXCEPT !.stage = "shown"]
  ELSE IF watch.stage = "idle" THEN watch
  ELSE NoWatch

\* instance i was dragged or closed
WatchWithout(i) == IF watch.chibi = i THEN NoWatch ELSE watch

(* -------------------------- spawn_chibi_window ------------------------ *)
\* the margin a new window gets
SpawnMargin(data) == IF global_hide_state THEN GlobalPark ELSE data.x

NewSurface(data) ==
  [margin_left |-> SpawnMargin(data), margin_top |-> data.y,
   child |-> data.path, width |-> data.width]

NewChibi(data, is_new, w) ==
  [window |-> w, data |-> data,
   current_x |-> ToF64(data.x), current_y |-> ToF64(data.y),
   start_win_x |-> 0, start_win_y |-> 0,
   move_mode |-> FALSE,
   current_delay |-> data.hide_delay,
   is_new_state |-> is_new,
   current_id |-> data.id,
   current_name |-> data.name,
   row |-> TRUE,
   pool_len |-> Len(dead_pool)]

\* (row: the instance's row is in active_list; pool_len records the length of the
\* recycle pool when the instance was spawned)

\* add_to_active_ui on surface w, the pool becoming pool
SpawnOn(data, is_new, w, pool) ==
  /\ Len(chibi) < MaxWin
  /\ surface' = IF w > Len(surface)
                  THEN Append(surface, NewSurface(data))
                  ELSE [surface EXCEPT ![w] = NewSurface(data)]
  /\ dead_pool' = pool
  /\ chibi' = Append(chibi, NewChibi(data, is_new, w))
  /\ active_registry' = Append(active_registry,
        [preset_id |-> data.id, window |-> w,
         list_row |-> Len(chibi) + 1, current_x |-> Len(chibi) + 1])

\* a spawn that takes the most recently retired surface when there is one
AddToActiveUiRecycling(data, is_new) ==
  IF dead_pool = <<>>
    THEN SpawnOn(data, is_new, Len(surface) + 1, dead_pool)
    ELSE SpawnOn(data, is_new, Last(dead_pool), Front(dead_pool))

\* add_to_active_ui: spawn_chibi_window always builds a new gtk::Window
AddToActiveUi(data, is_new) ==
  SpawnOn(data, is_new, Len(surface) + 1, dead_pool)

(* ------------------------- manager: spawn form ------------------------ *)
\* the FileDialog callback with a file
SelectImage(p) ==
  /\ ManagerClick
  /\ selected_path' = p
  /\ UNCHANGED <<active_registry, dead_pool, global_hide_state, presets, preset_rows,
                 manager_visible, dialog, chibi, surface, timeouts,
                 drag, gestures, channel, tray_is_hidden, ui_pc, running, uuids, watch, file>>

\* spawn_btn clicked with no image selected: nothing happens
SpawnRejected ==
  /\ ManagerClick
  /\ selected_path = NoPath
  /\ UNCHANGED <<uiVars, drag, gestures, channel, tray_is_hidden, ui_pc, running, uuids>>

\* a spawn_btn handler that does not look at selected_path
SpawnClickedUnchecked(check_hide) ==
  /\ ManagerClick
  /\ uuids' = uuids + 1
  /\ AddToActiveUi([id |-> uuids + 1, name |-> "New Chibi", path |-> selected_path,
                    width |-> FormSize, x |-> SpinX, y |-> SpinY,
                    smart_hide |-> check_hide, always_on_top |-> FALSE,
                    hide_delay |-> DefaultDelay], TRUE)
  /\ UNCHANGED <<global_hide_state, presets, selected_path, preset_rows, manager_visible,
                 dialog, timeouts, drag, gestures, channel, tray_is_hidden, ui_pc,
                 running, watch, file>>

\* spawn_btn clicked with an image selected; check_hide is the Smart Hide box
SpawnClicked(check_hide) ==
  /\ ManagerClick
  /\ selected_path # NoPath
  /\ uuids' = uuids + 1
  /\ AddToActiveUi([id |-> uuids + 1, name |-> "New Chibi", path |-> selected_path,
                    width |-> FormSize, x |-> SpinX, y |-> SpinY,
                    smart_hide |-> check_hide, always_on_top |-> FALSE,
                    hide_delay |-> DefaultDelay], TRUE)
  /\ UNCHANGED <<global_hide_state, presets, selected_path, preset_rows, manager_visible,
                 dialog, timeouts, drag, gestures, channel, tray_is_hidden, ui_pc, running, watch, file>>

\* quit_btn clicked
QuitClicked ==
  /\ ManagerClick
  /\ running' = FALSE
  /\ UNCHANGED <<uiVars, drag, gestures, channel, tray_is_hidden, ui_pc, uuids>>

\* the manager window's close request hides it
CloseRequest ==
  /\ ManagerClick
  /\ manager_visible' = FALSE
  /\ UNCHANGED <<active_registry, dead_pool, global_hide_state, presets, selected_path,
                 preset_rows, dialog, chibi, surface, timeouts,
                 drag, gestures, channel, tray_is_hidden, ui_pc, running, uuids, watch, file>>


(* ----------------------- manager: active rows ------------------------- *)
IsChibi(i) == i \in 1..Len(chibi)

\* a delay_spin handler that writes the delay into the instance's preset too
DelayChangedIntoPreset(i, v) ==
  /\ ManagerClick
  /\ IsChibi(i) /\ chibi[i].row
  /\ v # chibi[i].current_delay
  /\ chibi' = [chibi EXCEPT ![i].current_delay = v]
  /\ presets' = [k \in 1..Len(presets) |->
                   IF presets[k].id = chibi[i].current_id
                     THEN [presets[k] EXCEPT !.hide_delay = v] ELSE presets[k]]
  /\ UNCHANGED <<active_registry, dead_pool, global_hide_state, selected_path,
                 preset_rows, manager_visible, dialog, surface, timeouts,
                 drag, gestures, channel, tray_is_hidden, ui_pc, running, uuids, watch, file>>

\* delay_spin value changed to v
DelayChanged(i, v) ==
  /\ ManagerClick
  /\ IsChibi(i) /\ chibi[i].row
  /\ v # chibi[i].current_delay
  /\ chibi' = [chibi EXCEPT ![i].current_delay = v]
  /\ UNCHANGED <<active_registry, dead_pool, global_hide_state, presets, selected_path,
                 preset_rows, manager_visible, dialog, surface, timeouts,
                 drag, gestures, channel, tray_is_hidden, ui_pc, running, uuids, watch, file>>

\* the drag in progress, if it is on chibi i, stops counting as one made with
\* move-mode on throughout once move-mode is switched off
DragAfterToggle(i, a) ==
  IF drag.active /\ drag.chibi = i /\ ~a THEN [drag EXCEPT !.armed = FALSE] ELSE drag

\* move_btn toggled
MoveToggled(i) ==
  /\ ManagerClick
  /\ IsChibi(i) /\ chibi[i].row
  /\ chibi' = [chibi EXCEPT ![i].move_mode = ~chibi[i].move_mode]
  /\ drag' = DragAfterToggle(i, ~chibi[i].move_mode)
  /\ UNCHANGED <<active_registry, dead_pool, global_hide_state, presets, selected_path,
                 preset_rows, manager_visible, dialog, surface, timeouts,
                 gestures, channel, tray_is_hidden, ui_pc, running, uuids, watch, file>>

\* final_data of save_btn's handler
FinalData(i) ==
  [chibi[i].data EXCEPT
     !.x = AsI32(chibi[i].current_x),
     !.y = AsI32(chibi[i].current_y),
     !.hide_delay = chibi[i].current_delay,
     !.id = chibi[i].current_id,
     !.name = IF ~chibi[i].is_new_state THEN chibi[i].current_name ELSE chibi[i].data.name]

\* an update that overwrites the first preset of the list, whatever its id
UpdatePresetFirst(ps, d) ==
  IF ps = <<>> THEN ps ELSE [ps EXCEPT ![1] = d]

\* the preset list after `*existing = final_data` on the first preset with that id
UpdatePreset(ps, d) ==
  IF PresetPosition(ps, d.id) = 0 THEN ps
  ELSE [ps EXCEPT ![PresetPosition(ps, d.id)] = d]

\* save_btn clicked on an instance that is bound to a preset
SaveUpdate(i) ==
  /\ ManagerClick
  /\ IsChibi(i) /\ chibi[i].row
  /\ ~chibi[i].is_new_state
  /\ Len(channel) < MaxQueue
  /\ presets' = UpdatePreset(presets, FinalData(i))
  /\ channel' = Append(channel, "RefreshPresets")
  /\ file' \in save_presets(presets')
  /\ UNCHANGED <<active_registry, dead_pool, global_hide_state, selected_path,
                 preset_rows, manager_visible, dialog, chibi, surface, timeouts,
                 drag, gestures, tray_is_hidden, ui_pc, running, uuids, watch>>

\* save_btn clicked on an unsaved instance: the modal Save Preset dialog opens
SaveAsk(i) ==
  /\ ManagerClick
  /\ IsChibi(i) /\ chibi[i].row
  /\ chibi[i].is_new_state
  /\ dialog' = [open |-> TRUE, chibi |-> i, data |-> FinalData(i)]
  /\ UNCHANGED <<active_registry, dead_pool, global_hide_state, presets, selected_path,
                 preset_rows, manager_visible, chibi, surface, timeouts,
                 drag, gestures, channel, tray_is_hidden, ui_pc, running, uuids, watch, file>>

\* the registry after the rebind loop of b_save: the first entry whose window is w
Rebind(reg, w, id) ==
  IF PositionByWindow(reg, w) = 0 THEN reg
  ELSE [reg EXCEPT ![PositionByWindow(reg, w)].preset_id = id]

\* the rebind applied on every Save of the dialog, saved before or not
DialogSaveKeepNew(txt) ==
  /\ UiIdle /\ dialog.open
  /\ txt # ""
  /\ Len(channel) < MaxQueue
  /\ uuids' = uuids + 1
  /\ presets' = Append(presets, [dialog.data EXCEPT !.id = uuids + 1, !.name = txt])
  /\ chibi' = [chibi EXCEPT ![dialog.chibi].current_id = uuids + 1,
                            ![dialog.chibi].current_name = txt]
  /\ active_registry' = Rebind(active_registry, chibi[dialog.chibi].window, uuids + 1)
  /\ channel' = Append(channel, "RefreshPresets")
  /\ dialog' = NoDialog
  /\ file' \in save_presets(presets')
  /\ UNCHANGED <<dead_pool, global_hide_state, selected_path, preset_rows,
                 manager_visible, surface, timeouts,
                 drag, gestures, tray_is_hidden, ui_pc, running, watch>>

\* a b_save handler that stops where the write fails, before the rebind
DialogSaveOrAbort(txt) ==
  /\ UiIdle /\ dialog.open
  /\ txt # ""
  /\ Len(channel) < MaxQueue
  /\ uuids' = uuids + 1
  /\ presets' = Append(presets, [dialog.data EXCEPT !.id = uuids + 1, !.name = txt])
  /\ file' \in save_presets(presets')
  /\ IF file'.state = "json" /\ file'.data = presets'
       THEN /\ chibi' = [chibi EXCEPT ![dialog.chibi].is_new_state = FALSE,
                                      ![dialog.chibi].current_id = uuids + 1,
                                      ![dialog.chibi].current_name = txt]
            /\ active_registry' =
                 Rebind(active_registry, chibi[dialog.chibi].window, uuids + 1)
            /\ channel' = Append(channel, "RefreshPresets")
            /\ dialog' = NoDialog
       ELSE UNCHANGED <<chibi, active_registry, channel, dialog>>
  /\ UNCHANGED <<dead_pool, global_hide_state, selected_path, preset_rows,
                 manager_visible, surface, timeouts,
                 drag, gestures, tray_is_hidden, ui_pc, running, watch>>

\* b_save clicked with a name typed
DialogSave(txt) ==
  /\ UiIdle /\ dialog.open
  /\ txt # ""
  /\ Len(channel) < MaxQueue
  /\ uuids' = uuids + 1
  /\ presets' = Append(presets, [dialog.data EXCEPT !.id = uuids + 1, !.name = txt])
  /\ chibi' = [chibi EXCEPT ![dialog.chibi].is_new_state = FALSE,
                            ![dialog.chibi].current_id = uuids + 1,
                            ![dialog.chibi].current_name = txt]
  /\ active_registry' = Rebind(active_registry, chibi[dialog.chibi].window, uuids + 1)
  /\ channel' = Append(channel, "RefreshPresets")
  /\ dialog' = NoDialog
  /\ file' \in save_presets(presets')
  /\ UNCHANGED <<dead_pool, global_hide_state, selected_path, preset_rows,
                 manager_visible, surface, timeouts,
                 drag, gestures, tray_is_hidden, ui_pc, running, watch>>

\* b_save clicked with an empty entry, or b_cancel clicked: the dialog closes
DialogDismiss ==
  /\ UiIdle /\ dialog.open
  /\ dialog' = NoDialog
  /\ UNCHANGED <<active_registry, dead_pool, global_hide_state, presets, selected_path,
                 preset_rows, manager_visible, chibi, surface, timeouts,
                 drag, gestures, channel, tray_is_hidden, ui_pc, running, uuids, watch, file>>

\* the registry after close_btn's removal: the first entry with the closer's preset id
Unregister(reg, i) ==
  IF PositionByPreset(reg, chibi[i].current_id) = 0 THEN reg
  ELSE RemoveAt(reg, PositionByPreset(reg, chibi[i].current_id))

\* close_btn clicked
CloseClicked(i) ==
  /\ ManagerClick
  /\ IsChibi(i) /\ chibi[i].row
  /\ active_registry' = Unregister(active_registry, i)
  /\ chibi' = [chibi EXCEPT ![i].row = FALSE]
  /\ surface' = RetireSurface(surface, chibi[i].window)
  /\ dead_pool' = Append(dead_pool, chibi[i].window)
  /\ watch' = WatchWithout(i)
  /\ UNCHANGED <<global_hide_state, presets, selected_path, preset_rows,
                 manager_visible, dialog, timeouts,
                 drag, gestures, channel, tray_is_hidden, ui_pc, running, uuids, file>>

(* ----------------------- manager: preset rows ------------------------- *)
\* play_btn clicked on row k: the preset as the row captured it
PlayClicked(k) ==
  /\ ManagerClick
  /\ k \in 1..Len(preset_rows)
  /\ AddToActiveUi(preset_rows[k], FALSE)
  /\ UNCHANGED <<global_hide_state, presets, selected_path, preset_rows, manager_visible,
                 dialog, timeouts, drag, gestures, channel, tray_is_hidden, ui_pc,
                 running, uuids, watch, file>>

\* the entries of the registry with preset id pid, in order
Matching(reg, pid) == SelectSeq(reg, LAMBDA e : e.preset_id = pid)

\* del_btn's loop over the matching entries: rows removed, windows recycled
RECURSIVE CascadeRows(_, _)
CascadeRows(ch, es) ==
  IF es = <<>> THEN ch
  ELSE CascadeRows([ch EXCEPT ![es[1].list_row].row = FALSE], Tail(es))

RECURSIVE CascadeSurfaces(_, _)
CascadeSurfaces(sf, es) ==
  IF es = <<>> THEN sf
  ELSE CascadeSurfaces(RetireSurface(sf, es[1].window), Tail(es))

RECURSIVE CascadePool(_, _)
CascadePool(pool, es) ==
  IF es = <<>> THEN pool
  ELSE CascadePool(Append(pool, es[1].window), Tail(es))

\* vec.remove(pos) for the first preset with the id
RemovePreset(ps, pid) ==
  IF PresetPosition(ps, pid) = 0 THEN ps ELSE RemoveAt(ps, PresetPosition(ps, pid))

\* del_btn clicked on row k
DelClicked(k) ==
  /\ ManagerClick
  /\ k \in 1..Len(preset_rows)
  /\ Len(channel) < MaxQueue
  /\ LET pid_target == preset_rows[k].id
         hit == Matching(active_registry, pid_target)
     IN /\ chibi' = CascadeRows(chibi, hit)
        /\ surface' = CascadeSurfaces(surface, hit)
        /\ dead_pool' = CascadePool(dead_pool, hit)
        /\ active_registry' = SelectSeq(active_registry, LAMBDA e : e.preset_id # pid_target)
        /\ presets' = RemovePreset(presets, pid_target)
        /\ watch' = IF \E k2 \in 1..Len(hit) : hit[k2].list_row = watch.chibi
                      THEN NoWatch ELSE watch
  /\ channel' = Append(channel, "RefreshPresets")
  /\ file' \in IF PresetPosition(presets, preset_rows[k].id) = 0
                THEN {file} ELSE save_presets(presets')
  /\ UNCHANGED <<global_hide_state, selected_path, preset_rows, manager_visible,
                 dialog, timeouts, drag, gestures, tray_is_hidden, ui_pc, running, uuids>>


(* --------------------------- overlay: drag ---------------------------- *)
\* The pointer can enter or press only a surface that is on the screen: the
\* margins the code parks a window at (10000, 20000, 30000) are past every
\* output, and the code itself takes an x above 9000 for a parked one.
OnScreen(w) == surface[w].margin_left <= ParkedThreshold

\* the position drag_update computes by adding the offset to the current position
DragTargetAccumulating(i, off) ==
  <<chibi[i].current_x + off[1], chibi[i].current_y + off[2]>>

\* the position drag_update computes: the snapshot of drag_begin plus the offset
DragTarget(i, off) ==
  <<chibi[i].start_win_x + off[1], chibi[i].start_win_y + off[2]>>

\* the pointer is pressed on overlay i: drag_begin
DragBegin(i) ==
  /\ UiIdle
  /\ IsChibi(i)
  /\ OnScreen(chibi[i].window)
  /\ ~drag.active
  /\ gestures < MaxGestures
  /\ gestures' = gestures + 1
  /\ chibi' = IF chibi[i].move_mode
                THEN [chibi EXCEPT ![i].start_win_x = chibi[i].current_x,
                                   ![i].start_win_y = chibi[i].current_y]
                ELSE chibi
  /\ drag' = [active |-> TRUE, chibi |-> i, off |-> <<0, 0>>,
              press_x |-> chibi[i].current_x, press_y |-> chibi[i].current_y,
              armed |-> chibi[i].move_mode, move_at_press |-> chibi[i].move_mode]
  /\ UNCHANGED <<active_registry, dead_pool, global_hide_state, presets, selected_path,
                 preset_rows, manager_visible, dialog, surface, timeouts,
                 channel, tray_is_hidden, ui_pc, running, uuids, watch, file>>

\* the pressed pointer moves to offset off from the press point: drag_update
DragUpdate(off) ==
  /\ UiIdle
  /\ drag.active
  /\ drag' = [drag EXCEPT !.off = off]
  /\ LET i == drag.chibi
         new == DragTarget(i, off)
     IN IF ~chibi[i].move_mode
          THEN UNCHANGED <<chibi, surface, watch>>
          ELSE /\ watch' = WatchWithout(i)
               /\ surface' = [surface EXCEPT ![chibi[i].window].margin_left = AsI32(new[1]),
                                             ![chibi[i].window].margin_top = AsI32(new[2])]
               /\ chibi' = [chibi EXCEPT ![i].current_x = new[1], ![i].current_y = new[2]]
  /\ UNCHANGED <<active_registry, dead_pool, global_hide_state, presets, selected_path,
                 preset_rows, manager_visible, dialog, timeouts,
                 gestures, channel, tray_is_hidden, ui_pc, running, uuids, file>>

\* the pointer is released: the gesture ends, no handler is connected
DragEnd ==
  /\ UiIdle
  /\ drag.active
  /\ drag' = [drag EXCEPT !.active = FALSE]
  /\ UNCHANGED <<uiVars, gestures, channel, tray_is_hidden, ui_pc, running, uuids>>

(* ------------------------ overlay: smart hide ------------------------- *)
\* an enter handler that does not look at move-mode
HoverIgnoredUnarmed(i) ==
  \/ global_hide_state
  \/ chibi[i].current_x > ToF64(ParkedThreshold)

\* whether hide_ctrl's enter handler returns early
HoverIgnored(i) ==
  \/ chibi[i].move_mode
  \/ global_hide_state
  \/ chibi[i].current_x > ToF64(ParkedThreshold)

\* an enter handler that parks by writing the logical x as well
HoverEnterMovingLogical(i) ==
  /\ UiIdle
  /\ IsChibi(i)
  /\ OnScreen(chibi[i].window)
  /\ chibi[i].data.smart_hide
  /\ IF HoverIgnored(i)
       THEN UNCHANGED <<surface, timeouts, watch, chibi>>
       ELSE /\ Len(timeouts) < MaxTimers
            /\ watch' = WatchAfterHover(i)
            /\ surface' = [surface EXCEPT ![chibi[i].window].margin_left = HoverPark]
            /\ chibi' = [chibi EXCEPT ![i].current_x = ToF64(HoverPark)]
            /\ timeouts' = Append(timeouts,
                 [chibi |-> i, window |-> chibi[i].window,
                  seconds |-> chibi[i].current_delay])
  /\ UNCHANGED <<active_registry, dead_pool, global_hide_state, presets, selected_path,
                 preset_rows, manager_visible, dialog,
                 drag, gestures, channel, tray_is_hidden, ui_pc, running, uuids, file>>

\* the pointer enters overlay i, which has the smart-hide controller
HoverEnter(i) ==
  /\ UiIdle
  /\ IsChibi(i)
  /\ OnScreen(chibi[i].window)
  /\ chibi[i].data.smart_hide
  /\ IF HoverIgnored(i)
       THEN UNCHANGED <<surface, timeouts, watch>>
       ELSE /\ Len(timeouts) < MaxTimers
            /\ watch' = WatchAfterHover(i)
            /\ surface' = [surface EXCEPT ![chibi[i].window].margin_left = HoverPark]
            /\ timeouts' = Append(timeouts,
                 [chibi |-> i, window |-> chibi[i].window,
                  seconds |-> chibi[i].current_delay])
  /\ UNCHANGED <<active_registry, dead_pool, global_hide_state, presets, selected_path,
                 preset_rows, manager_visible, dialog, chibi,
                 drag, gestures, channel, tray_is_hidden, ui_pc, running, uuids, file>>

\* a timeout closure that restores the margin whatever the modes are
TimerRestoresAlways(t) == TRUE

\* whether the timeout closure restores the margin
TimerRestores(t) == ~chibi[t.chibi].move_mode /\ ~global_hide_state

\* pending timeout k fires
TimerFire(k) ==
  /\ UiIdle
  /\ k \in 1..Len(timeouts)
  /\ LET t == timeouts[k]
     IN /\ surface' = IF TimerRestores(t)
                        THEN [surface EXCEPT
                                ![t.window].margin_left = AsI32(chibi[t.chibi].current_x)]
                        ELSE surface
        /\ watch' = WatchAfterTimer(t.chibi)
  /\ timeouts' = RemoveAt(timeouts, k)
  /\ UNCHANGED <<active_registry, dead_pool, global_hide_state, presets, selected_path,
                 preset_rows, manager_visible, dialog, chibi,
                 drag, gestures, channel, tray_is_hidden, ui_pc, running, uuids, file>>

(* ----------------------------- tray thread ---------------------------- *)
\* "Open Manager" activated
TrayOpenManager ==
  /\ Alive
  /\ Len(channel) < MaxQueue
  /\ channel' = Append(channel, "ToggleManager")
  /\ UNCHANGED <<uiVars, drag, gestures, tray_is_hidden, ui_pc, running, uuids>>

\* a "Hide All Chibis" activation that sends without flipping the checkmark
TrayHideAllUnchecked ==
  /\ Alive
  /\ Len(channel) < MaxQueue
  /\ channel' = Append(channel, "ToggleHideAll")
  /\ UNCHANGED <<uiVars, drag, gestures, tray_is_hidden, ui_pc, running, uuids>>

\* a "Hide All Chibis" activation that flips the shared flag from the tray thread
TrayHideAllDirect ==
  /\ Alive
  /\ Len(channel) < MaxQueue
  /\ tray_is_hidden' = ~tray_is_hidden
  /\ global_hide_state' = ~global_hide_state
  /\ channel' = Append(channel, "ToggleHideAll")
  /\ UNCHANGED <<active_registry, dead_pool, presets, selected_path, preset_rows,
                 manager_visible, dialog, chibi, surface, timeouts, watch,
                 drag, gestures, ui_pc, running, uuids, file>>

\* "Hide All Chibis" activated
TrayHideAll ==
  /\ Alive
  /\ Len(channel) < MaxQueue
  /\ tray_is_hidden' = ~tray_is_hidden
  /\ channel' = Append(channel, "ToggleHideAll")
  /\ UNCHANGED <<uiVars, drag, gestures, ui_pc, running, uuids>>

\* "Quit" activated
TrayQuit ==
  /\ Alive
  /\ Len(channel) < MaxQueue
  /\ channel' = Append(channel, "Quit")
  /\ UNCHANGED <<uiVars, drag, gestures, tray_is_hidden, ui_pc, running, uuids>>

(* ------------------------------ poll loop ----------------------------- *)
\* the ToggleHideAll loop over the registry, entry by entry
RECURSIVE HideAllSurfaces(_, _, _)
HideAllSurfaces(sf, reg, new_state) ==
  IF reg = <<>> THEN sf
  ELSE HideAllSurfaces(
         [sf EXCEPT ![reg[1].window].margin_left =
            IF new_state THEN GlobalPark ELSE AsI32(chibi[reg[1].current_x].current_x)],
         Tail(reg), new_state)

\* the 100 ms timeout callback starts
PollBegin ==
  /\ UiIdle
  /\ ui_pc' = "poll"
  /\ UNCHANGED <<uiVars, drag, gestures, channel, tray_is_hidden, running, uuids>>

\* a receive that leaves the message in the channel
RemainingPeeked(ch) == ch

\* the channel after try_recv() took its head
Remaining(ch) == Tail(ch)

\* a Quit that ends the callback at once
AfterQuitReturn(msg) == IF msg = "Quit" THEN "idle" ELSE "poll"

\* where the callback goes after handling msg: every arm falls back into the loop
AfterHandling(msg) == "poll"

\* try_recv() returns Ok(msg): the arm of msg runs
PollRecv ==
  /\ ui_pc = "poll"
  /\ channel # <<>>
  /\ LET msg == Head(channel)
     IN /\ channel' = Remaining(channel)
        /\ ui_pc' = AfterHandling(msg)
        /\ manager_visible' = IF msg = "ToggleManager" THEN TRUE ELSE manager_visible
        /\ global_hide_state' =
             IF msg = "ToggleHideAll" THEN ~global_hide_state ELSE global_hide_state
        /\ surface' = IF msg = "ToggleHideAll"
                        THEN HideAllSurfaces(surface, active_registry, ~global_hide_state)
                        ELSE surface
        /\ preset_rows' = IF msg = "RefreshPresets" THEN presets ELSE preset_rows
        /\ running' = IF msg = "Quit" THEN FALSE ELSE running
        /\ watch' = IF msg = "ToggleHideAll"
                      THEN WatchAfterToggle(~global_hide_state) ELSE watch
  /\ UNCHANGED <<active_registry, dead_pool, presets, selected_path, dialog, chibi,
                 timeouts, drag, gestures, tray_is_hidden, uuids, file>>

\* try_recv() returns Err: the callback returns
PollEnd ==
  /\ ui_pc = "poll"
  /\ channel = <<>>
  /\ ui_pc' = "idle"
  /\ UNCHANGED <<uiVars, drag, gestures, channel, tray_is_hidden, running, uuids>>

(* --------------------------- specification ---------------------------- *)
Next ==
  \/ \E p \in Paths : SelectImage(p)
  \/ SpawnRejected
  \/ \E h \in BOOLEAN : SpawnClicked(h)
  \/ QuitClicked
  \/ CloseRequest
  \/ \E i \in 1..MaxWin, v \in DelayValues \cup {DefaultDelay} : DelayChanged(i, v)
  \/ \E i \in 1..MaxWin : MoveToggled(i)
  \/ \E i \in 1..MaxWin : SaveUpdate(i)
  \/ \E i \in 1..MaxWin : SaveAsk(i)
  \/ \E txt \in EntryTexts : DialogSave(txt)
  \/ DialogDismiss
  \/ \E i \in 1..MaxWin : CloseClicked(i)
  \/ \E k \in 1..(2 * MaxWin + 1) : PlayClicked(k)
  \/ \E k \in 1..(2 * MaxWin + 1) : DelClicked(k)
  \/ \E i \in 1..MaxWin : DragBegin(i)
  \/ \E off \in Offsets : DragUpdate(off)
  \/ DragEnd
  \/ \E i \in 1..MaxWin : HoverEnter(i)
  \/ \E k \in 1..MaxTimers : TimerFire(k)
  \/ TrayOpenManager
  \/ TrayHideAll
  \/ TrayQuit
  \/ PollBegin
  \/ PollRecv
  \/ PollEnd

Spec == Init /\ [][Next]_vars


(***************************************************************************)
(* The same machine under three sets of user and tray events.  Each keeps *)
(* every action that writes a variable its claims read.                    *)
(***************************************************************************)
\* the overlay engine: drag, smart hide, global hide and close, on instances
\* replayed from the loaded preset (several can share its id)
NextOverlay ==
  \/ \E i \in 1..MaxWin : MoveToggled(i)
  \/ \E i \in 1..MaxWin : CloseClicked(i)
  \/ \E k \in 1..(2 * MaxWin + 1) : PlayClicked(k)
  \/ \E i \in 1..MaxWin : DragBegin(i)
  \/ \E off \in Offsets : DragUpdate(off)
  \/ DragEnd
  \/ \E i \in 1..MaxWin : HoverEnter(i)
  \/ \E k \in 1..MaxTimers : TimerFire(k)
  \/ TrayHideAll
  \/ PollBegin
  \/ PollRecv
  \/ PollEnd

SpecOverlay == Init /\ [][NextOverlay]_vars

\* the registry, the recycle pool and the preset store
NextStore ==
  \/ \E p \in Paths : SelectImage(p)
  \/ SpawnRejected
  \/ \E h \in BOOLEAN : SpawnClicked(h)
  \/ \E i \in 1..MaxWin, v \in DelayValues \cup {DefaultDelay} : DelayChanged(i, v)
  \/ \E i \in 1..MaxWin : SaveUpdate(i)
  \/ \E i \in 1..MaxWin : SaveAsk(i)
  \/ \E txt \in EntryTexts : DialogSave(txt)
  \/ DialogDismiss
  \/ \E i \in 1..MaxWin : CloseClicked(i)
  \/ \E k \in 1..(2 * MaxWin + 1) : PlayClicked(k)
  \/ \E k \in 1..(2 * MaxWin + 1) : DelClicked(k)
  \/ PollBegin
  \/ PollRecv
  \/ PollEnd

SpecStore == Init /\ [][NextStore]_vars

\* smart hide on live instances: hover, timers, the per-row delay, move-mode,
\* drag and the global hide
NextSmartHide ==
  \/ \E k \in 1..(2 * MaxWin + 1) : PlayClicked(k)
  \/ \E i \in 1..MaxWin, v \in DelayValues \cup {DefaultDelay} : DelayChanged(i, v)
  \/ \E i \in 1..MaxWin : MoveToggled(i)
  \/ \E i \in 1..MaxWin : DragBegin(i)
  \/ \E off \in Offsets : DragUpdate(off)
  \/ DragEnd
  \/ \E i \in 1..MaxWin : HoverEnter(i)
  \/ \E k \in 1..MaxTimers : TimerFire(k)
  \/ TrayHideAll
  \/ PollBegin
  \/ PollRecv
  \/ PollEnd

SpecSmartHide == Init /\ [][NextSmartHide]_vars

\* saving: instances of the spawn form, their delay changed by the spin button
\* and the position of the first changed by a drag, saved as new presets and
\* saved again, beside the loaded preset
NextSave ==
  \/ \E p \in Paths : SelectImage(p)
  \/ SpawnClicked(TRUE)
  \/ \E i \in 1..MaxWin, v \in DelayValues : DelayChanged(i, v)
  \/ MoveToggled(1)
  \/ DragBegin(1)
  \/ \E off \in Offsets : DragUpdate(off)
  \/ \E i \in 1..MaxWin : SaveUpdate(i)
  \/ \E i \in 1..MaxWin : SaveAsk(i)
  \/ \E txt \in EntryTexts : DialogSave(txt)
  \/ PollBegin
  \/ PollRecv
  \/ PollEnd

SpecSave == Init /\ [][NextSave]_vars

\* the command bridge: every sender of the channel, and the poll loop
NextBridge ==
  \/ \E p \in Paths : SelectImage(p)
  \/ \E h \in BOOLEAN : SpawnClicked(h)
  \/ QuitClicked
  \/ CloseRequest
  \/ \E i \in 1..MaxWin : SaveUpdate(i)
  \/ \E i \in 1..MaxWin : SaveAsk(i)
  \/ \E txt \in EntryTexts : DialogSave(txt)
  \/ DialogDismiss
  \/ \E i \in 1..MaxWin : CloseClicked(i)
  \/ \E k \in 1..(2 * MaxWin + 1) : PlayClicked(k)
  \/ \E k \in 1..(2 * MaxWin + 1) : DelClicked(k)
  \/ TrayOpenManager
  \/ TrayHideAll
  \/ TrayQuit
  \/ PollBegin
  \/ PollRecv
  \/ PollEnd

SpecBridge == Init /\ [][NextBridge]_vars

\* the command bridge with the poll timer's scheduling: the 100 ms timeout keeps
\* being dispatched while the application runs, and a callback that has started
\* runs on to its return
SpecDelivery ==
  /\ Init /\ [][NextBridge]_vars
  /\ WF_vars(PollBegin) /\ WF_vars(PollRecv) /\ WF_vars(PollEnd)


(* ------------------------------ claims -------------------------------- *)
Range(q) == { q[k] : k \in 1..Len(q) }
MarginLeft(i) == surface[chibi[i].window].margin_left
IsParked(m) == m \in {HoverPark, GlobalPark, RecyclePark}
TimersOf(i) == { k \in 1..Len(timeouts) : timeouts[k].chibi = i }

\* C1: for the last gesture, if move-mode was on at the press and has stayed on,
\* the logical position is the position at the press plus the offset of the last
\* update, during the gesture and after the release, whatever came in between
DragInvariant ==
  (drag.chibi # 0 /\ drag.armed) =>
     /\ chibi[drag.chibi].current_x = drag.press_x + drag.off[1]
     /\ chibi[drag.chibi].current_y = drag.press_y + drag.off[2]

\* a released gesture that moved the overlay, with a hide timer pending and the
\* global hide on
DragInvariantWitness ==
  /\ drag.chibi # 0 /\ ~drag.active /\ drag.armed
  /\ drag.off # <<0, 0>>
  /\ chibi[drag.chibi].current_x # drag.press_x
  /\ global_hide_state
  /\ TimersOf(drag.chibi) # {}

\* C2: every instance has at most one pending reappear timer
OneTimerPerInstance ==
  \A i \in 1..Len(chibi) : Cardinality(TimersOf(i)) <= 1

\* C3: an instance parked by hover, then globally hidden while its timer was
\* pending, stays parked while hidden; once the global hide is off again and the
\* timer has fired, its projection is its pre-hide logical position, which has
\* not changed
GlobalHideOverride ==
  /\ watch.stage = "hidden" =>
       /\ IsParked(MarginLeft(watch.chibi))
       /\ chibi[watch.chibi].current_x = watch.x0
  /\ (watch.stage = "shown" /\ watch.fired) =>
       /\ MarginLeft(watch.chibi) = AsI32(watch.x0)
       /\ chibi[watch.chibi].current_x = watch.x0

\* C4: while the global hide is on, every live instance is parked off screen
GlobalHideParksAll ==
  global_hide_state =>
    \A i \in 1..Len(chibi) : chibi[i].row => IsParked(MarginLeft(i))

\* C7: no surface of the recycle pool is referenced by a registry entry
PoolNotRegistered ==
  \A k \in 1..Len(active_registry) : active_registry[k].window \notin Range(dead_pool)

\* C8: a retired surface stays at the off-screen sentinel
RetiredStaysParked ==
  \A w \in Range(dead_pool) : surface[w].margin_left = RecyclePark


\* the instance came from the spawn form: it is unsaved, or was rebound since
FromForm(i) == chibi[i].is_new_state \/ chibi[i].current_id # chibi[i].data.id
PresetIds(ps) == { ps[k].id : k \in 1..Len(ps) }
\* the preset ids the registry holds for surface w
BoundIds(reg, w) == { reg[k].preset_id : k \in { j \in 1..Len(reg) : reg[j].window = w } }

\* one step, seen from instance i of the spawn form
RebindOnceStep(i) ==
  LET c == chibi[i]
      d == chibi'[i]
  IN /\ (c.is_new_state /\ ~d.is_new_state) =>
          /\ Len(presets') = Len(presets) + 1
          /\ SubSeq(presets', 1, Len(presets)) = presets
          /\ Last(presets').id = d.current_id
          /\ d.current_id \notin PresetIds(presets)
          /\ d.current_id # c.current_id
          /\ BoundIds(active_registry', c.window) = {d.current_id}
     /\ (c.is_new_state = d.is_new_state) =>
          /\ d.current_id = c.current_id
          /\ BoundIds(active_registry', c.window) \subseteq BoundIds(active_registry, c.window)
     /\ ~c.is_new_state => ~d.is_new_state
     /\ SaveUpdate(i) =>
          /\ Len(presets') = Len(presets)
          /\ \A k \in 1..Len(presets) :
               IF k = PresetPosition(presets, c.current_id)
                 THEN presets'[k] = FinalData(i)
                 ELSE presets'[k] = presets[k]

\* C5: an instance of the spawn form is rebound to a newly created preset id
\* once, in the step that appends that one preset; presets are appended in no
\* other step; a Save click after the rebind replaces the preset with that id,
\* where the store holds it, in place and leaves the number of presets as it is
RebindOnce ==
  [][ /\ \A i \in 1..Len(chibi) : FromForm(i) => RebindOnceStep(i)
      /\ Len(presets') > Len(presets) =>
           \E i \in 1..Len(chibi) : chibi[i].is_new_state /\ ~chibi'[i].is_new_state
    ]_vars

\* the instance of the form was saved as a preset, the preset list was
\* refreshed, and a later Save click wrote a changed delay into that preset
RebindOnceWitness ==
  /\ Len(chibi) = 1 /\ chibi[1].row
  /\ ~chibi[1].is_new_state /\ chibi[1].current_id # chibi[1].data.id
  /\ Len(presets) = 1 /\ presets[1].id = chibi[1].current_id
  /\ Len(preset_rows) = 1 /\ preset_rows[1].id = presets[1].id
  /\ preset_rows[1].hide_delay # presets[1].hide_delay
  /\ channel = <<"RefreshPresets">>

\* C6: after Delete is clicked for preset P, every instance spawned from P that
\* was live is closed, its surface in the recycle pool and at the sentinel; no
\* registry entry has preset id P; the preset list has no P
DeleteCascade ==
  [][ \A k \in 1..Len(preset_rows) :
        DelClicked(k) =>
          LET P == preset_rows[k].id
          IN /\ \A i \in 1..Len(chibi) :
                  (chibi[i].row /\ ~chibi[i].is_new_state /\ chibi[i].current_id = P) =>
                     /\ ~chibi'[i].row
                     /\ chibi[i].window \in Range(dead_pool')
                     /\ surface'[chibi[i].window].margin_left = RecyclePark
             /\ \A j \in 1..Len(active_registry') : active_registry'[j].preset_id # P
             /\ P \notin PresetIds(presets')
    ]_vars

Handled(msg) ==
  /\ msg = "ToggleManager" => manager_visible'
  /\ msg = "ToggleHideAll" => global_hide_state' = ~global_hide_state
  /\ msg = "RefreshPresets" => preset_rows' = presets
  /\ msg = "Quit" => ~running'

\* C10: the channel changes only by a send at its tail or by the poll loop
\* taking its head, whose arm then runs; and the poll callback returns only on an
\* empty channel, also after a Quit
BridgeOrder ==
  [][ /\ channel' # channel =>
           \/ \E m \in {"Quit", "ToggleManager", "ToggleHideAll", "RefreshPresets"} :
                channel' = Append(channel, m)
           \/ /\ ui_pc = "poll" /\ channel # <<>>
              /\ channel' = Tail(channel)
              /\ Handled(Head(channel))
      /\ (ui_pc = "poll" /\ ui_pc' = "idle") => (channel = <<>> /\ channel' = <<>>)
    ]_vars

\* inside one poll callback, Quit has been handled and a message still follows
BridgeOrderWitness ==
  ui_pc = "poll" /\ ~running /\ Len(channel) = 2 /\ channel[1] # channel[2]


\* the poll loop has ended for good: the application quit outside the callback
PollStopped == ~running /\ ui_pc = "idle"
\* this step takes msg from the head of the channel
Takes(msg) == channel # <<>> /\ Head(channel) = msg /\ channel' = Tail(channel)

\* C11: while the poll loop runs, the channel is empty again and again or its
\* head is taken again and again, so that every message, sent by the tray or by
\* a UI handler, reaches the head and is taken; a message leaves the channel only at the head,
\* in the step that runs its arm, and an arm runs only in a step that takes its
\* message: none is lost, none handled twice
BridgeDelivery ==
  /\ [][ /\ Len(channel') < Len(channel) =>
              (channel # <<>> /\ channel' = Tail(channel) /\ Handled(Head(channel)))
         /\ global_hide_state' # global_hide_state => Takes("ToggleHideAll")
         /\ preset_rows' # preset_rows => Takes("RefreshPresets")
         /\ (running /\ ~running') => (Takes("Quit") \/ ui_pc = "idle")
       ]_vars
  /\ \/ []<>(channel = <<>> \/ PollStopped)
     \/ []<><<channel # <<>> /\ channel' = Tail(channel)>>_vars

\* a message of a UI handler waits behind one of the tray while the poll loop
\* is inside its callback
BridgeDeliveryWitness ==
  /\ ui_pc = "poll" /\ running
  /\ Len(channel) = 2
  /\ channel[1] = "ToggleHideAll" /\ channel[2] = "RefreshPresets"
  /\ presets # <<>> /\ preset_rows # presets


\* what the UI thread owns
uiOwned == <<active_registry, dead_pool, global_hide_state, presets, selected_path,
             preset_rows, manager_visible, dialog, chibi, surface, timeouts,
             drag, ui_pc, running>>

\* C12: a menu activation of the tray thread appends one message to the channel
\* and changes, besides, only the tray's own is_hidden; the hide flag, the
\* registry, the pool, the presets and the instances change in no tray step,
\* wherever the UI thread is, inside the poll callback or between callbacks
SingleWriter ==
  [][ /\ (TrayOpenManager \/ TrayHideAll \/ TrayQuit) =>
           /\ UNCHANGED uiOwned
           /\ \E m \in {"ToggleManager", "ToggleHideAll", "Quit"} :
                channel' = Append(channel, m)
      /\ tray_is_hidden' # tray_is_hidden =>
           /\ UNCHANGED uiOwned
           /\ channel' = Append(channel, "ToggleHideAll")
    ]_vars

\* the tray has flipped its checkmark and sent the message; the UI thread,
\* inside the poll callback, has not handled it: the shared flag and the live
\* instance are as they were
SingleWriterWitness ==
  /\ ui_pc = "poll"
  /\ tray_is_hidden /\ ~global_hide_state
  /\ channel # <<>> /\ Last(channel) = "ToggleHideAll"
  /\ \E i \in 1..Len(chibi) : chibi[i].row /\ ~IsParked(MarginLeft(i))


\* C13: while no image is selected no step creates an instance of the spawn
\* form: no id is drawn, the only instances created are replays of a listed
\* preset, and the registry, the pool, the presets and the file are as a click
\* on Spawn found them; a spawn that does create an instance has the selected
\* image and writes nothing
SpawnNeedsImage ==
  [][ /\ selected_path = NoPath =>
           /\ uuids' = uuids
           /\ Len(chibi') > Len(chibi) =>
                (~Last(chibi').is_new_state /\ Last(chibi').data \in Range(preset_rows))
           /\ SpawnRejected => UNCHANGED <<chibi, surface, active_registry, dead_pool,
                                           presets, file, channel>>
      /\ (Len(chibi') > Len(chibi) /\ Last(chibi').is_new_state) =>
           /\ Last(chibi').data.path = selected_path
           /\ selected_path # NoPath
           /\ UNCHANGED <<presets, file, dead_pool>>
    ]_vars

\* Spawn can be clicked with no image selected, in a manager that lists a
\* preset and has a replayed instance and a retired one
SpawnNeedsImageWitness ==
  /\ selected_path = NoPath /\ ManagerClick
  /\ preset_rows # <<>> /\ dead_pool # <<>>
  /\ \E i \in 1..Len(chibi) : chibi[i].row


\* C14: the ids of the preset list are pairwise different in every state; a
\* step that lengthens the list appends one preset with an id the list did not
\* hold, a step that keeps its length keeps the id at every position, and a
\* step that shortens it is a Delete click that removes the one preset with
\* the id of the clicked row
PresetIdsStable ==
  /\ [](\A j, k \in 1..Len(presets) : j # k => presets[j].id # presets[k].id)
  /\ [][ /\ Len(presets') > Len(presets) =>
              /\ Len(presets') = Len(presets) + 1
              /\ SubSeq(presets', 1, Len(presets)) = presets
              /\ Last(presets').id \notin PresetIds(presets)
         /\ Len(presets') = Len(presets) =>
              \A k \in 1..Len(presets) : presets'[k].id = presets[k].id
         /\ Len(presets') < Len(presets) =>
              \E r \in 1..Len(preset_rows) :
                /\ DelClicked(r)
                /\ PresetPosition(presets, preset_rows[r].id) # 0
                /\ presets' = RemoveAt(presets, PresetPosition(presets, preset_rows[r].id))
       ]_vars

\* a store that held the loaded preset and one saved as new; the new one was
\* updated by a Save after the list was refreshed, and the loaded one deleted
PresetIdsStableWitness ==
  /\ Len(presets) = 1 /\ presets[1].id # 0
  /\ file.state = "json" /\ Len(file.data) = 2
  /\ \E r \in 1..Len(preset_rows) :
       /\ preset_rows[r].id = presets[1].id
       /\ preset_rows[r].hide_delay # presets[1].hide_delay


\* the write of this step, if it made one, did not reach the file
SaveFailed == file' = file /\ (file.state # "json" \/ file.data # presets')

\* C15: a file that is missing or does not parse loads as the empty list; the
\* file changes only to the in-memory list; and a step that changes the list
\* while its write fails still completes: a save-as-new appends, rebinds the
\* instance and its registry entry and closes the dialog, a save-update
\* replaces in place, a delete leaves no registry entry and no live row of the
\* preset, each sends RefreshPresets, and the application goes on running with
\* no dialog put up
IoNeverFatal ==
  /\ (file.state # "json" => presets = <<>>)
  /\ [][ /\ file' # file => (file'.state = "json" /\ file'.data = presets')
         /\ (SaveFailed /\ presets' # presets) =>
              /\ running' /\ ui_pc' = "idle" /\ ~dialog'.open
              /\ channel' = Append(channel, "RefreshPresets")
              /\ Len(presets') > Len(presets) =>
                   /\ presets' = Append(presets, [dialog.data EXCEPT
                                          !.id = uuids', !.name = Last(presets').name])
                   /\ ~chibi'[dialog.chibi].is_new_state
                   /\ chibi'[dialog.chibi].current_id = Last(presets').id
                   /\ BoundIds(active_registry', chibi[dialog.chibi].window)
                        = {Last(presets').id}
              /\ Len(presets') = Len(presets) =>
                   \E i \in 1..Len(chibi) :
                     /\ presets' = UpdatePreset(presets, FinalData(i))
                     /\ UNCHANGED <<chibi, active_registry, surface, dead_pool>>
              /\ Len(presets') < Len(presets) =>
                   \E r \in 1..Len(preset_rows) :
                     /\ presets' = RemovePreset(presets, preset_rows[r].id)
                     /\ \A j \in 1..Len(active_registry') :
                          active_registry'[j].preset_id # preset_rows[r].id
                     /\ \A j \in 1..Len(active_registry) :
                          active_registry[j].preset_id = preset_rows[r].id =>
                            /\ ~chibi'[active_registry[j].list_row].row
                            /\ active_registry[j].window \in Range(dead_pool')
       ]_vars

\* the file could not be read at start and the write of a save-as-new failed:
\* the preset is in memory, the instance is bound to it, the file is as it was
IoNeverFatalWitness ==
  /\ file.state = "unreadable"
  /\ Len(presets) = 1
  /\ \E i \in 1..Len(chibi) :
       /\ chibi[i].row /\ ~chibi[i].is_new_state
       /\ chibi[i].current_id = presets[1].id
       /\ BoundIds(active_registry, chibi[i].window) = {presets[1].id}
  /\ ~dialog.open /\ running
  /\ channel # <<>> /\ Last(channel) = "RefreshPresets"


\* C16: a Close click on instance i removes from the registry the entry of i's
\* window and no other, and after every step the registry holds one entry for
\* each live instance and none for a closed one
CloseUnregistersSelf ==
  [][ /\ \A i \in 1..Len(chibi) :
           CloseClicked(i) =>
             active_registry' =
               SelectSeq(active_registry, LAMBDA e : e.window # chibi[i].window)
      /\ { active_registry'[k].list_row : k \in 1..Len(active_registry') }
           = { i \in 1..Len(chibi') : chibi'[i].row }
      /\ Len(active_registry') = Cardinality({ i \in 1..Len(chibi') : chibi'[i].row })
    ]_vars


\* instance i is somewhere else, logically, after this step
Moved(i) ==
  \/ chibi'[i].current_x # chibi[i].current_x
  \/ chibi'[i].current_y # chibi[i].current_y

\* C17: the logical position of an instance changes only in a motion step of a
\* gesture on that instance whose press found move-mode on; the motion events
\* of a gesture pressed with move-mode off move nothing, whatever move-mode is
\* by then
MovesOnlyWhenPressedArmed ==
  [][ \A i \in 1..Len(chibi) :
        Moved(i) => (drag.active /\ drag.chibi = i /\ drag.move_at_press) ]_vars

\* C18: once move-mode was switched off during a gesture, no later motion
\* event of that gesture changes the logical position or the projection of the
\* instance, move-mode switched on again or not
ToggleOffCancelsDrag ==
  [][ ((\E off \in Offsets : DragUpdate(off))
         /\ drag.move_at_press /\ ~drag.armed) =>
        /\ ~Moved(drag.chibi)
        /\ surface'[chibi[drag.chibi].window] = surface[chibi[drag.chibi].window]
    ]_vars


\* the gesture in progress is a drag of instance i in the Dragging state
Dragging(i) == drag.active /\ drag.chibi = i /\ drag.armed

\* C19: a hover-enter on a smart-hide instance with move-mode on, a drag of it
\* under way or the global hide on changes no projection and schedules nothing;
\* any other hover-enter, on an instance that is on screen, parks it at the
\* hover coordinate and schedules one timer, with the delay the instance has then
HoverGuard ==
  [][ \A i \in 1..Len(chibi) :
        HoverEnter(i) =>
          IF chibi[i].move_mode \/ Dragging(i) \/ global_hide_state
            THEN surface' = surface /\ timeouts' = timeouts
            ELSE /\ surface' = [surface EXCEPT ![chibi[i].window].margin_left = HoverPark]
                 /\ Len(timeouts') = Len(timeouts) + 1
                 /\ SubSeq(timeouts', 1, Len(timeouts)) = timeouts
                 /\ Last(timeouts').chibi = i
                 /\ Last(timeouts').seconds = chibi[i].current_delay
    ]_vars

\* an instance whose delay was changed since its spawn is parked by a hover,
\* its one timer carrying the changed delay, while another instance, in
\* move-mode, is on screen
HoverGuardWitness ==
  \E i, j \in 1..Len(chibi) :
    /\ MarginLeft(i) = HoverPark
    /\ chibi[i].current_delay # chibi[i].data.hide_delay
    /\ \E k \in TimersOf(i) : timeouts[k].seconds = chibi[i].current_delay
    /\ Cardinality(TimersOf(i)) = 1
    /\ j # i /\ chibi[j].move_mode /\ ~IsParked(MarginLeft(j)) /\ TimersOf(j) = {}


\* C20: a timer that fires on a live instance sets the projection to the
\* logical position the instance has then if move-mode is off and the global
\* hide is off, and changes no projection otherwise; it is gone afterwards, the
\* other timers stay, and the logical position is as it was
TimerRevalidates ==
  [][ \A k \in 1..Len(timeouts) :
        (TimerFire(k) /\ chibi[timeouts[k].chibi].row) =>
          LET i == timeouts[k].chibi
          IN /\ surface' =
                  IF ~chibi[i].move_mode /\ ~global_hide_state
                    THEN [surface EXCEPT ![chibi[i].window].margin_left =
                                            AsI32(chibi[i].current_x)]
                    ELSE surface
             /\ timeouts' = RemoveAt(timeouts, k)
             /\ chibi' = chibi
    ]_vars

\* two timers have fired: that of the watched instance, hovered at x = 100 and
\* hidden and shown again by the global hide, which is at 100; and that of
\* another, whose move-mode was switched on meanwhile, left at the hover
\* coordinate
TimerRevalidatesWitness ==
  /\ watch.stage = "shown" /\ watch.fired
  /\ TimersOf(watch.chibi) = {}
  /\ chibi[watch.chibi].data.x = FormX /\ MarginLeft(watch.chibi) = FormX
  /\ \E i \in 1..Len(chibi) :
       /\ i # watch.chibi
       /\ MarginLeft(i) = HoverPark /\ TimersOf(i) = {}
       /\ chibi[i].move_mode /\ ~global_hide_state


\* C21: the logical position of an instance changes in no step but a drag
\* motion event on that instance: a hover-enter, a timer firing, a message of
\* the poll loop (the global hide toggled on or off), a move-mode toggle and a
\* close leave the logical position of every instance as it was
ParkingKeepsLogical ==
  [][ /\ \A i \in 1..Len(chibi) :
           Moved(i) => (drag.active /\ drag.chibi = i /\ \E off \in Offsets : DragUpdate(off))
      /\ ( \/ \E i \in 1..Len(chibi) : HoverEnter(i) \/ MoveToggled(i) \/ CloseClicked(i)
           \/ \E k \in 1..Len(timeouts) : TimerFire(k)
           \/ PollRecv ) =>
           \A i \in 1..Len(chibi) : ~Moved(i)
    ]_vars

\* the global hide is on; one instance was dragged, then parked by a hover whose
\* timer is pending, and is at the global parking coordinate; another was
\* closed: each logical position is where the drag or the spawn left it
ParkingKeepsLogicalWitness ==
  /\ global_hide_state
  /\ \E i, j \in 1..Len(chibi) :
       /\ chibi[i].row /\ MarginLeft(i) = GlobalPark /\ TimersOf(i) # {}
       /\ drag.chibi = i /\ ~drag.active /\ drag.armed /\ drag.off # <<0, 0>>
       /\ chibi[i].current_x = drag.press_x + drag.off[1]
       /\ ~chibi[j].row /\ MarginLeft(j) = RecyclePark
       /\ chibi[j].current_x = ToF64(chibi[j].data.x)


\* preset p with the logical position and the delay instance i has now
WithStateOf(p, i) ==
  [p EXCEPT !.x = AsI32(chibi[i].current_x), !.y = AsI32(chibi[i].current_y),
            !.hide_delay = chibi[i].current_delay]

\* C22: a change of the delay spin of instance i changes the delay of i and
\* nothing else: not the presets, the file, the pending timers or another
\* instance.  A Save click on a bound instance replaces, in its preset, the
\* position and the delay by those the instance has, and leaves every other
\* preset; a Save click on an unsaved instance takes those values for the
\* preset that the dialog then appends, the list being otherwise as it was
DelayIsLocalUntilSaved ==
  [][ /\ \A i \in 1..Len(chibi) :
           (chibi'[i].current_delay # chibi[i].current_delay) =>
              /\ chibi' = [chibi EXCEPT ![i].current_delay = chibi'[i].current_delay]
              /\ UNCHANGED <<presets, file, timeouts, surface, active_registry, preset_rows>>
      /\ \A i \in 1..Len(chibi) :
           SaveUpdate(i) =>
              /\ Len(presets') = Len(presets)
              /\ \A k \in 1..Len(presets) :
                   presets'[k] = IF presets[k].id = chibi[i].current_id
                                   THEN WithStateOf(presets[k], i) ELSE presets[k]
              /\ chibi' = chibi
      /\ \A i \in 1..Len(chibi) :
           SaveAsk(i) =>
              /\ dialog'.data = WithStateOf(chibi[i].data, i)
              /\ UNCHANGED <<presets, file, chibi>>
      /\ Len(presets') > Len(presets) =>
           /\ SubSeq(presets', 1, Len(presets)) = presets
           /\ Last(presets') = [dialog.data EXCEPT !.id = Last(presets').id,
                                                   !.name = Last(presets').name]
    ]_vars

\* the first instance was saved as new and listed, then dragged, and saved
\* again: its preset holds the new position and delay, the loaded
\* preset is as it was loaded, and the second instance, unsaved, has another delay
DelayIsLocalUntilSavedWitness ==
  /\ Len(chibi) = 2 /\ Len(presets) = 2
  /\ presets[1] = LoadedPreset
  /\ ~chibi[1].is_new_state /\ presets[2].id = chibi[1].current_id
  /\ chibi[1].current_x # ToF64(chibi[1].data.x)
  /\ presets[2].x = AsI32(chibi[1].current_x)
  /\ presets[2].x # chibi[1].data.x
  /\ chibi[1].current_delay # DefaultDelay
  /\ presets[2].hide_delay = chibi[1].current_delay
  /\ chibi[2].is_new_state /\ chibi[2].current_delay = DefaultDelay
  /\ \E r \in 1..Len(preset_rows) :
       preset_rows[r].id = presets[2].id /\ preset_rows[r].x # presets[2].x


\* C23: a live instance that the registry holds, with the global hide off and
\* no timer of its own pending, is projected at its logical position
ProjectionFollowsLogical ==
  \A i \in 1..Len(chibi) :
    ( /\ chibi[i].row
      /\ PositionByWindow(active_registry, chibi[i].window) # 0
      /\ ~global_hide_state
      /\ TimersOf(i) = {} ) =>
        /\ MarginLeft(i) = AsI32(chibi[i].current_x)
        /\ surface[chibi[i].window].margin_top = AsI32(chibi[i].current_y)


\* the ToggleHideAll messages the channel holds
TogglesInFlight == Cardinality({ k \in 1..Len(channel) : channel[k] = "ToggleHideAll" })

\* C24: the tray's checkmark differs from the UI thread's hide flag exactly
\* when the channel holds an odd number of ToggleHideAll messages; with none
\* in the channel the two agree
HiddenParity ==
  (tray_is_hidden # global_hide_state) <=> (TogglesInFlight % 2 = 1)

\* the hide flag was set by one message, and two more activations of the tray
\* are in the channel: checkmark and flag agree, both on
HiddenParityWitness ==
  /\ global_hide_state /\ tray_is_hidden
  /\ channel = <<"ToggleHideAll", "ToggleHideAll">>


\* C25: every live instance that is not marked new is bound to an id that the
\* preset list holds
PersistedIsStored ==
  \A i \in 1..Len(chibi) :
    (chibi[i].row /\ ~chibi[i].is_new_state) => chibi[i].current_id \in PresetIds(presets)

====
